---- MODULE Spec2Model ----
(***************************************************************************)
(* Framing and dispatch core of the RTCP crate (rtcp/src/packet.rs):       *)
(* unmarshal splits a datagram into sub-packets and dispatches each to a   *)
(* decoder; marshal concatenates the packets' own serializations.          *)
(*                                                                         *)
(* Bytes are integers 0..255.  The header codec, the concrete packet       *)
(* codecs and the sink are collaborators that live outside packet.rs;      *)
(* they are modelled from the design text.                                 *)
(***************************************************************************)
EXTENDS Integers, Sequences, FiniteSets, TLC

\* ------------------------------------------------------------------ bounds
\* Sub-packet chunks concatenated into one input datagram.
MaxSub == 2
\* Body words a generated chunk or packet actually carries.
MaxBodyWords == 1
\* Packets handed to marshal.
MaxPk == 3
\* Limited sinks hold 0, 3, .. 3 * MaxSinkCap bytes.
MaxSinkCap == 3

\* ------------------------------------------------------- program constants
HEADER_LENGTH == 4
RTP_VERSION == 2
\* header.length is a u16
LENGTH_MODULUS == 65536

TypeSenderReport == 200
TypeReceiverReport == 201
TypeSourceDescription == 202
TypeGoodbye == 203
TypeApplicationDefined == 204
TypeTransportSpecificFeedback == 205
TypePayloadSpecificFeedback == 206

FORMAT_TLN == 1
FORMAT_RRR == 5
FORMAT_PLI == 1
FORMAT_SLI == 2
FORMAT_REMB == 15

ErrPacketTooShort == "ErrPacketTooShort"
ErrInvalidHeader == "ErrInvalidHeader"
ErrBadVersion == "ErrBadVersion"
ErrMalformedBody == "ErrMalformedBody"
ErrWriteZero == "ErrWriteZero"

\* ------------------------------------------------------------ Result<T, E>
Ok(v) == [ok |-> TRUE, val |-> v, err |-> ""]
Err(e) == [ok |-> FALSE, val |-> <<>>, err |-> e]

\* ----------------------------------------------------------------- buffers
\* A byte buffer is kept as its bytes up to the last non-zero one, plus the
\* number of zero bytes that follow: [bytes |-> <<128, 200>>, pad |-> 2] is
\* the four bytes 128 200 0 0.  Every buffer is built by Buf, so two buffers
\* are equal exactly when they hold the same bytes.
\* Number of zero bytes at the end of the first n bytes of s.
RECURSIVE TrailingZeros(_, _)
TrailingZeros(s, n) ==
    IF n = 0 \/ s[n] # 0 THEN 0 ELSE 1 + TrailingZeros(s, n - 1)

Buf(bytes, pad) ==
    LET z == TrailingZeros(bytes, Len(bytes))
    IN IF z = 0 THEN [bytes |-> bytes, pad |-> pad]
       ELSE [bytes |-> SubSeq(bytes, 1, Len(bytes) - z), pad |-> pad + z]

Bytes(s) == Buf(s, 0)
Empty == Bytes(<<>>)
BLen(b) == Len(b.bytes) + b.pad
At(b, i) == IF i <= Len(b.bytes) THEN b.bytes[i] ELSE 0

\* &b[0..n], for n <= BLen(b)
Take(b, n) ==
    IF n <= Len(b.bytes) THEN Bytes(SubSeq(b.bytes, 1, n))
    ELSE Buf(b.bytes, n - Len(b.bytes))

\* &b[n..], for n <= BLen(b)
Drop(b, n) ==
    IF n <= Len(b.bytes) THEN Buf(SubSeq(b.bytes, n + 1, Len(b.bytes)), b.pad)
    ELSE Buf(<<>>, b.pad - (n - Len(b.bytes)))

\* a followed by b
Cat(a, b) ==
    IF b.bytes = <<>> THEN Buf(a.bytes, a.pad + b.pad)
    ELSE Buf(a.bytes \o [i \in 1..a.pad |-> 0] \o b.bytes, b.pad)

RECURSIVE Flatten(_)
Flatten(bs) == IF bs = <<>> THEN Empty ELSE Cat(Head(bs), Flatten(Tail(bs)))

\* ------------------------------------------------------------ Header codec
\* Decodes the fixed 4-byte header: V(2) P(1) count(5) | PT(8) | length(16).
\* A version other than RTP_VERSION is rejected.
HeaderUnmarshal(b) ==
    IF BLen(b) < HEADER_LENGTH THEN Err(ErrPacketTooShort)
    ELSE IF (At(b, 1) \div 64) # RTP_VERSION THEN Err(ErrBadVersion)
    ELSE Ok([version     |-> At(b, 1) \div 64,
             padding     |-> ((At(b, 1) \div 32) % 2) = 1,
             count       |-> At(b, 1) % 32,
             packet_type |-> At(b, 2),
             length      |-> At(b, 3) * 256 + At(b, 4)])

\* Inverse of HeaderUnmarshal: packs the fields into 4 bytes, network order.
HeaderMarshal(h) ==
    Bytes(<< h.version * 64 + (IF h.padding THEN 32 ELSE 0) + h.count,
             h.packet_type,
             h.length \div 256,
             h.length % 256 >>)

NoHeader == [version |-> 0, padding |-> FALSE, count |-> 0,
             packet_type |-> 0, length |-> 0]

\* ------------------------------------------------------------ packet kinds
ReportKinds == {"SenderReport", "ReceiverReport", "SourceDescription", "Goodbye"}
FeedbackKinds == {"TransportLayerNack", "RapidResynchronizationRequest",
                  "PictureLossIndication", "SliceLossIndication",
                  "ReceiverEstimatedMaximumBitrate"}
ConcreteKinds == ReportKinds \cup FeedbackKinds
RawKind == "RawPacket"

TypeOf(kind) ==
    CASE kind = "SenderReport" -> TypeSenderReport
      [] kind = "ReceiverReport" -> TypeReceiverReport
      [] kind = "SourceDescription" -> TypeSourceDescription
      [] kind = "Goodbye" -> TypeGoodbye
      [] kind \in {"TransportLayerNack", "RapidResynchronizationRequest"} ->
            TypeTransportSpecificFeedback
      [] OTHER -> TypePayloadSpecificFeedback

FormatOf(kind) ==
    CASE kind = "TransportLayerNack" -> FORMAT_TLN
      [] kind = "RapidResynchronizationRequest" -> FORMAT_RRR
      [] kind = "PictureLossIndication" -> FORMAT_PLI
      [] kind = "SliceLossIndication" -> FORMAT_SLI
      [] OTHER -> FORMAT_REMB

\* A concrete packet value: its kind and the fields the core can observe.
\* A feedback packet's count is the format of its kind.
ConcretePacket(kind, padding, count, body) ==
    [kind |-> kind, padding |-> padding, count |-> count, body |-> body]

\* The raw fallback keeps the sub-packet's bytes verbatim.
RawPacket(raw) == [kind |-> RawKind, raw |-> raw]

\* Concrete decoder of one kind, on a slice that holds header and body.
\* Field validation is the collaborator's business; the one malformation
\* represented here is a padding flag on a packet with no body to pad.
ConcreteUnmarshal(kind, slice) ==
    IF BLen(slice) < HEADER_LENGTH THEN Err(ErrPacketTooShort)
    ELSE LET padding == ((At(slice, 1) \div 32) % 2) = 1
             body == Drop(slice, HEADER_LENGTH)
         IN IF padding /\ body = Empty THEN Err(ErrMalformedBody)
            ELSE Ok(ConcretePacket(kind, padding, At(slice, 1) % 32, body))

\* Raw fallback decoder: needs a header, keeps everything.
RawUnmarshal(slice) ==
    IF BLen(slice) < HEADER_LENGTH THEN Err(ErrPacketTooShort)
    ELSE Ok(RawPacket(slice))

\* A packet's own serialization: header built from its fields, then the body.
PacketBytes(p) ==
    IF p.kind = RawKind THEN p.raw
    ELSE Cat(HeaderMarshal([version     |-> RTP_VERSION,
                            padding     |-> p.padding,
                            count       |-> IF p.kind \in FeedbackKinds
                                            THEN FormatOf(p.kind) ELSE p.count,
                            packet_type |-> TypeOf(p.kind),
                            length      |-> BLen(p.body) \div 4]),
             p.body)

\* ---------------------------------------------------------------- dispatch
\* Mutant of DecoderFor: the arm for FORMAT_REMB is missing.
DecoderForNoRemb(packet_type, count) ==
    CASE packet_type = TypeSenderReport -> "SenderReport"
      [] packet_type = TypeReceiverReport -> "ReceiverReport"
      [] packet_type = TypeSourceDescription -> "SourceDescription"
      [] packet_type = TypeGoodbye -> "Goodbye"
      [] packet_type = TypeTransportSpecificFeedback ->
            (CASE count = FORMAT_TLN -> "TransportLayerNack"
               [] count = FORMAT_RRR -> "RapidResynchronizationRequest"
               [] OTHER -> RawKind)
      [] packet_type = TypePayloadSpecificFeedback ->
            (CASE count = FORMAT_PLI -> "PictureLossIndication"
               [] count = FORMAT_SLI -> "SliceLossIndication"
               [] OTHER -> RawKind)
      [] OTHER -> RawKind

\* The decoder the match of unmarshaler selects for (packet_type, count).
DecoderFor(packet_type, count) ==
    CASE packet_type = TypeSenderReport -> "SenderReport"
      [] packet_type = TypeReceiverReport -> "ReceiverReport"
      [] packet_type = TypeSourceDescription -> "SourceDescription"
      [] packet_type = TypeGoodbye -> "Goodbye"
      [] packet_type = TypeTransportSpecificFeedback ->
            (CASE count = FORMAT_TLN -> "TransportLayerNack"
               [] count = FORMAT_RRR -> "RapidResynchronizationRequest"
               [] OTHER -> RawKind)
      [] packet_type = TypePayloadSpecificFeedback ->
            (CASE count = FORMAT_PLI -> "PictureLossIndication"
               [] count = FORMAT_SLI -> "SliceLossIndication"
               [] count = FORMAT_REMB -> "ReceiverEstimatedMaximumBitrate"
               [] OTHER -> RawKind)
      [] OTHER -> RawKind

unmarshaler(reader, hdr) ==
    LET kind == DecoderFor(hdr.packet_type, hdr.count)
    IN IF kind = RawKind THEN RawUnmarshal(reader)
       ELSE ConcreteUnmarshal(kind, reader)

\* (header.length + 1) as usize * 4, the addition done in u16.
WrappedSize(length) == ((length + 1) % LENGTH_MODULUS) * 4
Overflows(length) == length + 1 >= LENGTH_MODULUS


\* ------------------------------------------------------------------- sink
\* A sink is unlimited, or accepts cap bytes in all.  write_all on a limited
\* sink stores the bytes that still fit and fails on the rest.
Unlimited == [limited |-> FALSE, cap |-> 0]
Limited(n) == [limited |-> TRUE, cap |-> n]

SinkWrite(w, s, bytes) ==
    IF ~s.limited \/ BLen(w) + BLen(bytes) <= s.cap
    THEN [ok |-> TRUE, writer |-> Cat(w, bytes), err |-> ""]
    ELSE [ok |-> FALSE, writer |-> Cat(w, Take(bytes, s.cap - BLen(w))),
          err |-> ErrWriteZero]

\* p.marshal(writer)
PacketMarshal(p, w, s) == SinkWrite(w, s, PacketBytes(p))

\* ------------------------------------------------------------------ state
VARIABLES
    overflow_checks, \* build profile: u16 overflow panics (TRUE) or wraps
    input,           \* the datagram handed to unmarshal
    raw_data,        \* unmarshal: the part of the datagram not yet consumed
    header,          \* unmarshal: header of the current sub-packet
    bytes_processed, \* unmarshal: size computed for the current sub-packet
    packets,         \* unmarshal: packets decoded so far
    slices,          \* history: [at, size] of every slice handed to a decoder
    headers_at,      \* history: offset of every header handed to Header::unmarshal
    upc,             \* unmarshal: "idle", "loop", "size", "dispatch", "match", "done"
    result,          \* unmarshal: what the call returned
    mpackets,        \* marshal: the packets to serialize
    sink,            \* marshal: the sink's capacity
    writer,          \* marshal: bytes in the sink
    mi,              \* marshal: index of the next packet
    marshalled,      \* history: indices of the packets whose marshal ran
    mpc,             \* marshal: "idle", "loop", "done"
    mresult,         \* marshal: what the call returned
    peer             \* a second unmarshal call: its arguments and locals

uvars == <<input, raw_data, header, bytes_processed, packets, slices, headers_at,
          upc, result>>
mvars == <<mpackets, sink, writer, mi, marshalled, mpc, mresult>>
vars == <<overflow_checks, uvars, mvars, peer>>

NoResult == [status |-> "none", err |-> "", packets |-> <<>>]
\* Ok(packets)
Returned(ps) == [status |-> "ok", err |-> "", packets |-> ps]

\* Mutant of Failed: an error breaks out of the loop instead of returning,
\* so the packets decoded so far reach the final match.
BreakOnError(e) ==
    IF packets # <<>> THEN [status |-> "ok", err |-> "", packets |-> packets]
    ELSE [status |-> "err", err |-> e, packets |-> <<>>]

\* return Err(e), also through `?`: the call ends with the error alone.
Failed(e) == [status |-> "err", err |-> e, packets |-> <<>>]
Panicked == [status |-> "panic", err |-> "attempt to add with overflow",
             packets |-> <<>>]

\* The arguments and locals of an unmarshal call that has not been made.
IdleCall ==
    [input |-> Empty, raw_data |-> Empty, header |-> NoHeader,
     bytes_processed |-> 0, packets |-> <<>>, upc |-> "idle",
     result |-> NoResult]

\* Offset of raw_data in the datagram.
Cursor == BLen(input) - BLen(raw_data)

\* --------------------------------------------------------------- unmarshal
\* &raw_data[0..bytes_processed]: the slice handed to the decoder.
SubPacket(data, n) == Take(data, n)

\* Mutant of Advance: the cursor moves past the header only.
AdvanceHeaderOnly(data, n) == Drop(data, HEADER_LENGTH)

\* Mutant of Advance: the cursor is left where it was.
AdvanceNothing(data, n) == data

\* raw_data = &raw_data[bytes_processed..]
Advance(data, n) == Drop(data, n)

\* Mutant of Push: the vector is shared with the other running call.
PushShared(ps, p) == Append(peer.packets \o ps, p)

\* Mutant of Push: the packet is inserted at the front.
PushFront(ps, p) == <<p>> \o ps

\* packets.push(packet)
Push(ps, p) == Append(ps, p)

\* Mutant of MatchResult: an empty sequence is returned as a success.
MatchResultAlwaysOk(ps) == Returned(ps)

\* match packets.len() { 0 => Err(ErrInvalidHeader), _ => Ok(packets) }
MatchResult(ps) ==
    IF Len(ps) = 0 THEN Failed(ErrInvalidHeader) ELSE Returned(ps)

\* while raw_data.len() != 0 { if raw_data.len() < HEADER_LENGTH { return Err } ...
LoopExit ==
    /\ upc = "loop"
    /\ BLen(raw_data) = 0
    /\ upc' = "match"
    /\ UNCHANGED <<overflow_checks, input, raw_data, header, bytes_processed,
                   packets, slices, headers_at, result, mvars, peer>>

\* Mutant of TooShort: a trailing fragment ends the loop like the end of data.
TooShortIgnored ==
    /\ upc = "loop"
    /\ BLen(raw_data) # 0
    /\ BLen(raw_data) < HEADER_LENGTH
    /\ upc' = "match"
    /\ UNCHANGED <<overflow_checks, input, raw_data, header, bytes_processed,
                   packets, slices, headers_at, result, mvars, peer>>

TooShort ==
    /\ upc = "loop"
    /\ BLen(raw_data) # 0
    /\ BLen(raw_data) < HEADER_LENGTH
    /\ result' = Failed(ErrPacketTooShort)
    /\ upc' = "done"
    /\ UNCHANGED <<overflow_checks, input, raw_data, header, bytes_processed,
                   packets, slices, headers_at, mvars, peer>>

\* let header = Header::unmarshal(&raw_data[0..HEADER_LENGTH])?;
ReadHeader ==
    /\ upc = "loop"
    /\ BLen(raw_data) >= HEADER_LENGTH
    /\ LET h == HeaderUnmarshal(Take(raw_data, HEADER_LENGTH))
       IN IF h.ok
          THEN /\ header' = h.val
               /\ upc' = "size"
               /\ UNCHANGED result
          ELSE /\ result' = Failed(h.err)
               /\ upc' = "done"
               /\ UNCHANGED header
    /\ headers_at' = Append(headers_at, Cursor)
    /\ UNCHANGED <<overflow_checks, input, raw_data, bytes_processed, packets,
                   slices, mvars, peer>>

\* let bytes_processed = (header.length + 1) as usize * 4;
\* if bytes_processed > raw_data.len() { return Err(ErrPacketTooShort) }
ComputeSize ==
    /\ upc = "size"
    /\ IF Overflows(header.length) /\ overflow_checks
       THEN /\ result' = Panicked
            /\ upc' = "done"
            /\ UNCHANGED bytes_processed
       ELSE IF WrappedSize(header.length) > BLen(raw_data)
       THEN /\ result' = Failed(ErrPacketTooShort)
            /\ upc' = "done"
            /\ UNCHANGED bytes_processed
       ELSE /\ bytes_processed' = WrappedSize(header.length)
            /\ upc' = "dispatch"
            /\ UNCHANGED result
    /\ UNCHANGED <<overflow_checks, input, raw_data, header, packets, slices,
                   headers_at, mvars, peer>>

\* let packet = unmarshaler(&raw_data[0..bytes_processed], &header)?;
\* packets.push(packet); raw_data = &raw_data[bytes_processed..];
Dispatch ==
    /\ upc = "dispatch"
    /\ slices' = Append(slices, [at |-> Cursor, size |-> bytes_processed])
    /\ LET r == unmarshaler(SubPacket(raw_data, bytes_processed), header)
       IN IF r.ok
          THEN /\ packets' = Push(packets, r.val)
               /\ raw_data' = Advance(raw_data, bytes_processed)
               /\ upc' = "loop"
               /\ UNCHANGED result
          ELSE /\ result' = Failed(r.err)
               /\ upc' = "done"
               /\ UNCHANGED <<packets, raw_data>>
    /\ header' = NoHeader
    /\ bytes_processed' = 0
    /\ UNCHANGED <<overflow_checks, input, headers_at, mvars, peer>>

\* The loop is over: the match on packets.len() decides the result.
Match ==
    /\ upc = "match"
    /\ result' = MatchResult(packets)
    /\ upc' = "done"
    /\ UNCHANGED <<overflow_checks, input, raw_data, header, bytes_processed,
                   packets, slices, headers_at, mvars, peer>>

\* ----------------------------------------------------------------- marshal
\* Mutant of MarshalNext: every packet is preceded by a byte holding its size.
MarshalNextFramed ==
    /\ mpc = "loop"
    /\ mi <= Len(mpackets)
    /\ marshalled' = Append(marshalled, mi)
    /\ LET w == SinkWrite(writer, sink,
                          Cat(Bytes(<<BLen(PacketBytes(mpackets[mi])) % 256>>),
                              PacketBytes(mpackets[mi])))
       IN /\ writer' = w.writer
          /\ IF w.ok
             THEN /\ mi' = mi + 1
                  /\ UNCHANGED <<mpc, mresult>>
             ELSE /\ mresult' = Failed(w.err)
                  /\ mpc' = "done"
                  /\ UNCHANGED mi
    /\ UNCHANGED <<overflow_checks, mpackets, sink, uvars, peer>>

\* Mutant of MarshalNext: the result of p.marshal is dropped, the loop goes on.
MarshalNextIgnoresError ==
    /\ mpc = "loop"
    /\ mi <= Len(mpackets)
    /\ marshalled' = Append(marshalled, mi)
    /\ writer' = PacketMarshal(mpackets[mi], writer, sink).writer
    /\ mi' = mi + 1
    /\ UNCHANGED <<overflow_checks, mpackets, sink, mpc, mresult, uvars, peer>>

\* for p in packets { p.marshal(writer)?; }
MarshalNext ==
    /\ mpc = "loop"
    /\ mi <= Len(mpackets)
    /\ marshalled' = Append(marshalled, mi)
    /\ LET w == PacketMarshal(mpackets[mi], writer, sink)
       IN /\ writer' = w.writer
          /\ IF w.ok
             THEN /\ mi' = mi + 1
                  /\ UNCHANGED <<mpc, mresult>>
             ELSE /\ mresult' = Failed(w.err)
                  /\ mpc' = "done"
                  /\ UNCHANGED mi
    /\ UNCHANGED <<overflow_checks, mpackets, sink, uvars, peer>>

\* Ok(())
MarshalReturn ==
    /\ mpc = "loop"
    /\ mi > Len(mpackets)
    /\ mresult' = Returned(<<>>)
    /\ mpc' = "done"
    /\ UNCHANGED <<overflow_checks, mpackets, sink, writer, mi, marshalled, uvars, peer>>

\* The caller hands what marshal wrote to unmarshal.
RoundTrip ==
    /\ mpc = "done"
    /\ mresult.status = "ok"
    /\ upc = "idle"
    /\ input' = writer
    /\ raw_data' = writer
    /\ upc' = "loop"
    /\ UNCHANGED <<overflow_checks, header, bytes_processed, packets, slices,
                   headers_at,
                   result, mvars, peer>>

\* ------------------------------------------------------------------ inputs
\* Headers of generated sub-packets, as <<first byte, packet type>>:
\* a sender report, a padded goodbye, a transport feedback of the unassigned
\* format 31, and a payload feedback that carries version 1.
HeadChoices == { <<128, TypeSenderReport>>,
                 <<161, TypeGoodbye>>,
                 <<159, TypeTransportSpecificFeedback>>,
                 <<65, TypePayloadSpecificFeedback>> }

\* One body word; read as a header it is a goodbye of length 0.
BodyWord == Bytes(<<129, TypeGoodbye, 0, 0>>)

Words(n) == Flatten([i \in 1..n |-> BodyWord])

\* A header declaring `declared` words, followed by `actual` body words.
Chunk(head, declared, actual) ==
    Cat(Bytes(<<head[1], head[2], declared \div 256, declared % 256>>),
        Words(actual))

Chunks ==
    { Chunk(h, d, a) : h \in HeadChoices, d \in {0, 1}, a \in 0..MaxBodyWords }
    \cup { Chunk(h, LENGTH_MODULUS - 1, 0) : h \in HeadChoices }

\* Trailing fragments of 0 to 3 bytes.
Tails == { Take(Bytes(<<128, TypeSenderReport, 1>>), n) : n \in 0..(HEADER_LENGTH - 1) }

\* One bare header of every packet type and every count or format.
SingleHeaders ==
    { Bytes(<<RTP_VERSION * 64 + c, t, 0, 0>>) : c \in 0..31, t \in 0..255 }

\* The largest sub-packet a header can declare, complete.
LargestBody == Buf(<<>>, (LENGTH_MODULUS - 1) * 4)
LargestDatagram ==
    Cat(Bytes(<<128, TypeSourceDescription, 255, 255>>), LargestBody)

\* The largest sub-packet followed by a word of zeros, which is no header.
LargestThenZeroWord == Cat(LargestDatagram, Buf(<<>>, HEADER_LENGTH))

\* Buffers for calls that run together: empty, a fragment, one sub-packet,
\* two sub-packets, a sub-packet its decoder rejects behind a good one, a
\* header of another version, a header declaring the largest size.
ParDatagrams ==
    { Empty,
      Bytes(<<128>>),
      Chunk(<<128, 200>>, 0, 0),
      Cat(Chunk(<<128, 200>>, 1, 1), Chunk(<<161, 203>>, 1, 1)),
      Cat(Chunk(<<159, 205>>, 0, 0), Chunk(<<161, 203>>, 0, 0)),
      Chunk(<<65, 206>>, 0, 0),
      Chunk(<<128, 200>>, LENGTH_MODULUS - 1, 0) }

\* The largest sub-packet of a kind with no concrete decoder, complete.
LargestRawDatagram ==
    Cat(Bytes(<<159, TypeTransportSpecificFeedback, 255, 255>>), LargestBody)

\* Datagrams are up to MaxSub chunks and a trailing fragment, or one of these.
OtherDatagrams ==
    SingleHeaders
        \cup { LargestDatagram, LargestThenZeroWord, LargestRawDatagram }

\* One packet of every concrete kind, with no body.
OneOfEachKind ==
    { ConcretePacket(k, FALSE, IF k \in FeedbackKinds THEN FormatOf(k) ELSE 3,
                     Empty) : k \in ConcreteKinds }

\* Packets that sequences are built from: a sender report, a transport-layer
\* nack, a picture loss indication and a bitrate estimate without body,
\* sender reports with a body, a padded goodbye, and a raw packet.
PacketChoices ==
    { p \in OneOfEachKind : p.kind \in { "SenderReport", "TransportLayerNack",
                                         "PictureLossIndication",
                                         "ReceiverEstimatedMaximumBitrate" } }
    \cup { ConcretePacket("SenderReport", FALSE, 0, Words(n)) : n \in 1..MaxBodyWords }
    \cup { ConcretePacket("Goodbye", TRUE, 1, Words(1)),
           RawPacket(Chunk(<<159, TypeTransportSpecificFeedback>>, 0, 0)) }

\* The largest packet a header can declare.
LargestPacket == ConcretePacket("SourceDescription", FALSE, 0, LargestBody)

\* A raw packet of 4 bytes whose header declares 8.
MisdeclaredPacket == RawPacket(Chunk(<<128, TypeApplicationDefined>>, 1, 0))

\* Sequences are up to MaxPk of PacketChoices, or one of these.
OtherPacketSeqs ==
    { <<p>> : p \in OneOfEachKind \cup { LargestPacket, MisdeclaredPacket } }

Sinks == { Unlimited } \cup { Limited(3 * n) : n \in 0..MaxSinkCap }

\* Packet sequences and sinks for calls that run together.
ParPacketSeqs ==
    { <<>>,
      << ConcretePacket("SenderReport", FALSE, 0, Empty) >>,
      << ConcretePacket("SenderReport", FALSE, 0, Words(1)),
         ConcretePacket("Goodbye", TRUE, 1, Words(1)) >>,
      << ConcretePacket("Goodbye", FALSE, 1, Empty), MisdeclaredPacket,
         ConcretePacket("PictureLossIndication", FALSE, FORMAT_PLI, Empty) >> }

ParSinks == { Unlimited, Limited(2 * HEADER_LENGTH) }

\* ----------------------------------------------------------- specification
\* No call has been made yet.
Init ==
    /\ overflow_checks \in BOOLEAN
    /\ input = Empty
    /\ raw_data = Empty
    /\ header = NoHeader
    /\ bytes_processed = 0
    /\ packets = <<>>
    /\ slices = <<>>
    /\ headers_at = <<>>
    /\ upc = "idle"
    /\ result = NoResult
    /\ mpackets = <<>>
    /\ sink = Unlimited
    /\ writer = Empty
    /\ mi = 1
    /\ marshalled = <<>>
    /\ mpc = "idle"
    /\ mresult = NoResult
    /\ peer = IdleCall

\* unmarshal(raw_data) is called on a datagram.
CallUnmarshal ==
    /\ upc = "idle"
    /\ mpc = "idle"
    /\ \/ \E n \in 0..MaxSub : \E cs \in [1..n -> Chunks] : \E t \in Tails :
             input' = Cat(Flatten(cs), t)
       \/ \E d \in OtherDatagrams :
             input' = d
    /\ raw_data' = input'
    /\ upc' = "loop"
    /\ UNCHANGED <<overflow_checks, header, bytes_processed, packets, slices,
                   headers_at,
                   result, mvars, peer>>

\* marshal(packets, writer) is called on a sequence of packets and a sink.
CallMarshal ==
    /\ upc = "idle"
    /\ mpc = "idle"
    /\ \/ \E n \in 0..MaxPk : \E ps \in [1..n -> PacketChoices] :
             mpackets' = ps
       \/ \E ps \in OtherPacketSeqs :
             mpackets' = ps
    /\ sink' \in Sinks
    /\ mpc' = "loop"
    /\ UNCHANGED <<overflow_checks, writer, mi, marshalled, mresult, uvars, peer>>

Next ==
    \/ CallUnmarshal
    \/ CallMarshal
    \/ LoopExit
    \/ TooShort
    \/ ReadHeader
    \/ ComputeSize
    \/ Dispatch
    \/ Match
    \/ MarshalNext
    \/ MarshalReturn
    \/ RoundTrip

Spec == Init /\ [][Next]_vars

\* ------------------------------------------------- calls running together
\* unmarshal(raw_data) is entered: let mut packets = vec![];
StartCall(buf) ==
    [IdleCall EXCEPT !.input = buf, !.raw_data = buf, !.upc = "loop"]

\* One step of unmarshal on the locals c of a call, oc the build profile.
UnmarshalStep(c, oc) ==
    IF c.upc = "loop"
    THEN IF BLen(c.raw_data) = 0 THEN [c EXCEPT !.upc = "match"]
         ELSE IF BLen(c.raw_data) < HEADER_LENGTH
         THEN [c EXCEPT !.result = Failed(ErrPacketTooShort), !.upc = "done"]
         ELSE LET h == HeaderUnmarshal(Take(c.raw_data, HEADER_LENGTH))
              IN IF h.ok THEN [c EXCEPT !.header = h.val, !.upc = "size"]
                 ELSE [c EXCEPT !.result = Failed(h.err), !.upc = "done"]
    ELSE IF c.upc = "size"
    THEN IF Overflows(c.header.length) /\ oc
         THEN [c EXCEPT !.result = Panicked, !.upc = "done"]
         ELSE IF WrappedSize(c.header.length) > BLen(c.raw_data)
         THEN [c EXCEPT !.result = Failed(ErrPacketTooShort), !.upc = "done"]
         ELSE [c EXCEPT !.bytes_processed = WrappedSize(c.header.length),
                        !.upc = "dispatch"]
    ELSE IF c.upc = "dispatch"
    THEN LET r == unmarshaler(SubPacket(c.raw_data, c.bytes_processed), c.header)
         IN IF r.ok
            THEN [c EXCEPT !.packets = Push(c.packets, r.val),
                           !.raw_data = Advance(c.raw_data, c.bytes_processed),
                           !.header = NoHeader, !.bytes_processed = 0,
                           !.upc = "loop"]
            ELSE [c EXCEPT !.result = Failed(r.err),
                           !.header = NoHeader, !.bytes_processed = 0,
                           !.upc = "done"]
    ELSE IF c.upc = "match"
    THEN [c EXCEPT !.result = MatchResult(c.packets), !.upc = "done"]
    ELSE c

\* A second call is made, on a buffer of its own.
CallPeer ==
    /\ peer.upc = "idle"
    /\ \E d \in ParDatagrams : peer' = StartCall(d)
    /\ UNCHANGED <<overflow_checks, uvars, mvars>>

\* The second call takes a step.
PeerStep ==
    /\ peer.upc \notin {"idle", "done"}
    /\ peer' = UnmarshalStep(peer, overflow_checks)
    /\ UNCHANGED <<overflow_checks, uvars, mvars>>

\* Calls that run together: unmarshal and marshal are entered independently
\* of each other, and a second unmarshal call runs beside them.
CallUnmarshalPar ==
    /\ upc = "idle"
    /\ \E d \in ParDatagrams : input' = d
    /\ raw_data' = input'
    /\ upc' = "loop"
    /\ UNCHANGED <<overflow_checks, header, bytes_processed, packets, slices,
                   headers_at, result, mvars, peer>>

CallMarshalPar ==
    /\ mpc = "idle"
    /\ \E ps \in ParPacketSeqs : mpackets' = ps
    /\ sink' \in ParSinks
    /\ mpc' = "loop"
    /\ UNCHANGED <<overflow_checks, writer, mi, marshalled, mresult, uvars, peer>>

NextPar ==
    \/ CallUnmarshalPar
    \/ CallMarshalPar
    \/ CallPeer
    \/ PeerStep
    \/ LoopExit
    \/ TooShort
    \/ ReadHeader
    \/ ComputeSize
    \/ Dispatch
    \/ Match
    \/ MarshalNext
    \/ MarshalReturn

SpecPar == Init /\ [][NextPar]_vars

\* The steps of a running unmarshal call.
UnmarshalRuns ==
    LoopExit \/ TooShort \/ ReadHeader \/ ComputeSize \/ Dispatch \/ Match

\* Buffers for the calls followed to their end: sub-packets that decode, that
\* their decoder rejects, that are truncated or declare the largest size, in
\* every order, then a fragment; a header of another version; the largest
\* sub-packet.
FairChunks ==
    { Chunk(h, d, a) : h \in { <<128, TypeSenderReport>>, <<161, TypeGoodbye>> },
                       d \in {0, 1}, a \in 0..MaxBodyWords }
    \cup { Chunk(<<128, TypeSenderReport>>, LENGTH_MODULUS - 1, 0) }

CallUnmarshalFair ==
    /\ upc = "idle"
    /\ \/ \E n \in 0..MaxSub : \E cs \in [1..n -> FairChunks] : \E t \in Tails :
             input' = Cat(Flatten(cs), t)
       \/ \E d \in { Chunk(<<65, TypePayloadSpecificFeedback>>, 0, 0),
                      LargestDatagram } :
             input' = d
    /\ raw_data' = input'
    /\ upc' = "loop"
    /\ UNCHANGED <<overflow_checks, header, bytes_processed, packets, slices,
                   headers_at, result, mvars, peer>>

NextFair ==
    \/ CallUnmarshalFair
    \/ LoopExit
    \/ TooShort
    \/ ReadHeader
    \/ ComputeSize
    \/ Dispatch
    \/ Match

\* unmarshal is a synchronous function: once called it keeps executing.
SpecFair == Init /\ [][NextFair]_vars /\ WF_vars(UnmarshalRuns)

\* ============================================================== properties
\* The bytes of the i-th slice handed to a decoder.
SliceBytes(i) == Take(Drop(input, slices[i].at), slices[i].size)

\* The header that starts at offset `at` of the datagram.
HeaderAt(at) == HeaderUnmarshal(Take(Drop(input, at), HEADER_LENGTH)).val

\* Size in bytes that a header declares, computed in the integers.
DeclaredSize(length) == (length + 1) * 4

\* The sub-packets of a buffer as the wire format frames them: each starts
\* with a header and is DeclaredSize long.  Stops at the first position that
\* does not hold a complete sub-packet.
RECURSIVE WireSlices(_)
WireSlices(buf) ==
    IF BLen(buf) < HEADER_LENGTH THEN <<>>
    ELSE LET n == DeclaredSize(At(buf, 3) * 256 + At(buf, 4))
         IN IF n > BLen(buf) THEN <<>>
            ELSE <<Take(buf, n)>> \o WireSlices(Drop(buf, n))

\* What decoding one complete sub-packet yields.
Decoded(slice) ==
    unmarshaler(slice, HeaderUnmarshal(Take(slice, HEADER_LENGTH)).val).val

\* The dispatch table of the design, row by row.
TableDecoder(packet_type, format) ==
    IF packet_type = 200 THEN "SenderReport"
    ELSE IF packet_type = 201 THEN "ReceiverReport"
    ELSE IF packet_type = 202 THEN "SourceDescription"
    ELSE IF packet_type = 203 THEN "Goodbye"
    ELSE IF packet_type = 205 /\ format = 1 THEN "TransportLayerNack"
    ELSE IF packet_type = 205 /\ format = 5 THEN "RapidResynchronizationRequest"
    ELSE IF packet_type = 206 /\ format = 1 THEN "PictureLossIndication"
    ELSE IF packet_type = 206 /\ format = 2 THEN "SliceLossIndication"
    ELSE IF packet_type = 206 /\ format = 15 THEN "ReceiverEstimatedMaximumBitrate"
    ELSE "RawPacket"

RECURSIVE SumSizes(_)
SumSizes(sl) == IF sl = <<>> THEN 0 ELSE Head(sl).size + SumSizes(Tail(sl))

\* ---- C1
\* C1: unmarshal of an empty buffer returns the InvalidHeader error and no
\* packets.
C1_EmptyIsInvalidHeader ==
    (upc = "done" /\ BLen(input) = 0)
        => /\ result.status = "err"
           /\ result.err = ErrInvalidHeader
           /\ result.packets = <<>>

C1_Witness ==
    upc = "done" /\ BLen(input) = 0 /\ result.status = "err"

\* ---- C2
\* C2: with 1, 2 or 3 bytes left at the cursor the call does nothing but fail
\* with PacketTooShort, returning no packets, however many sub-packets were
\* consumed before.
C2_FragmentTooShort ==
    (upc # "idle" /\ BLen(raw_data) \in 1..(HEADER_LENGTH - 1))
        => /\ upc \in {"loop", "done"}
           /\ upc = "done" => /\ result.status = "err"
                              /\ result.err = ErrPacketTooShort
                              /\ result.packets = <<>>

C2_Witness ==
    /\ upc = "done"
    /\ BLen(raw_data) \in 1..(HEADER_LENGTH - 1)
    /\ Len(packets) >= 1
    /\ result.err = ErrPacketTooShort

\* ---- C3
\* C3: a header whose declared size (length + 1) * 4 exceeds the bytes left
\* makes the call fail with PacketTooShort and no packets, for every 16-bit
\* length: no decoder is reached with such a header, and the call that
\* stopped on it returned PacketTooShort.
C3_TruncatedBodyTooShort ==
    (upc \in {"dispatch", "done"} /\ header # NoHeader
        /\ DeclaredSize(header.length) > BLen(raw_data))
        => /\ upc = "done"
           /\ result.status = "err"
           /\ result.err = ErrPacketTooShort
           /\ result.packets = <<>>

\* The same for the lengths whose successor fits 16 bits.
C3_TruncatedBelowMaxLength ==
    (upc \in {"dispatch", "done"} /\ header # NoHeader
        /\ header.length + 1 < LENGTH_MODULUS
        /\ DeclaredSize(header.length) > BLen(raw_data))
        => /\ upc = "done"
           /\ result.status = "err"
           /\ result.err = ErrPacketTooShort
           /\ result.packets = <<>>

C3_TruncatedAfterGood ==
    /\ upc = "done"
    /\ header # NoHeader
    /\ header.length + 1 < LENGTH_MODULUS
    /\ DeclaredSize(header.length) > BLen(raw_data)
    /\ Len(packets) >= 1

\* ---- C4
\* C4: a finished call returned either an error and no packets, or all the
\* packets of a datagram consumed to its end; the error of the header decoder
\* or of a decoder is the error returned, and packets decoded before it are
\* not returned.
C4_NoPartialResult ==
    upc = "done" =>
        \/ /\ result.status \in {"err", "panic"}
           /\ result.packets = <<>>
           /\ \* the decoder of the last slice failed
              Len(slices) > Len(packets) =>
                 result.err = unmarshaler(SliceBytes(Len(slices)),
                                          HeaderAt(slices[Len(slices)].at)).err
           /\ \* the header decoder failed
              (Len(slices) = Len(packets) /\ header = NoHeader
                  /\ BLen(raw_data) >= HEADER_LENGTH) =>
                 result.err = HeaderUnmarshal(Take(raw_data, HEADER_LENGTH)).err
        \/ /\ result.status = "ok"
           /\ result.packets = packets
           /\ Len(packets) = Len(slices)
           /\ BLen(raw_data) = 0
           /\ SumSizes(slices) = BLen(input)

\* A decoder rejects a sub-packet after an earlier one was decoded.
C4_Witness ==
    /\ upc = "done"
    /\ result.status = "err"
    /\ result.err = ErrMalformedBody
    /\ Len(packets) >= 1
    /\ Len(slices) = Len(packets) + 1

\* ---- C5
\* C5: a successful call returns one packet per sub-packet of the datagram, in
\* wire order: the i-th packet is the decoding of the i-th sub-packet.
C5_WireOrder ==
    (upc = "done" /\ result.status = "ok")
        => /\ Len(result.packets) = Len(WireSlices(input))
           /\ \A i \in 1..Len(result.packets) :
                 result.packets[i] = Decoded(WireSlices(input)[i])

\* A sender report followed by a goodbye.
C5_Witness ==
    /\ upc = "done"
    /\ result.status = "ok"
    /\ Len(result.packets) = 2
    /\ result.packets[1].kind = "SenderReport"
    /\ result.packets[2].kind = "Goodbye"

\* ---- C6
\* C6: for every packet type and every format 0..31 the decoder selected is
\* the one of the dispatch table, and a sub-packet of an unknown combination
\* is decoded (as raw), not refused.
C6_DispatchTable ==
    /\ upc = "dispatch" =>
          DecoderFor(header.packet_type, header.count)
              = TableDecoder(header.packet_type, header.count)
    /\ \A i \in 1..Len(packets) :
          packets[i].kind = TableDecoder(HeaderAt(slices[i].at).packet_type,
                                         HeaderAt(slices[i].at).count)
    /\ (upc = "done" /\ Len(slices) > Len(packets)) =>
          result.err \in {ErrPacketTooShort, ErrMalformedBody}

\* A bitrate estimate was dispatched.
C6_Witness ==
    /\ upc = "done"
    /\ result.status = "ok"
    /\ At(input, 2) = 206
    /\ At(input, 1) % 32 = 15
    /\ result.packets[1].kind = "ReceiverEstimatedMaximumBitrate"

\* ---- C7
\* The i-th header the call read starts a well-framed sub-packet with no
\* concrete decoder, and the call is past that sub-packet.
RawFramedAndPassed(i) ==
    LET at == headers_at[i]
        h == HeaderUnmarshal(Take(Drop(input, at), HEADER_LENGTH))
    IN /\ h.ok
       /\ TableDecoder(h.val.packet_type, h.val.count) = "RawPacket"
       /\ DeclaredSize(h.val.length) <= BLen(input) - at
       /\ i < Len(headers_at) \/ upc \notin {"size", "dispatch"}

\* The i-th packet decoded is a RawPacket, and marshalling it writes exactly
\* the declared bytes of the i-th sub-packet, header included, and none of
\* its neighbours'.
RawOfItsSlice(i) ==
    LET at == headers_at[i]
    IN /\ Len(packets) >= i
       /\ packets[i].kind = RawKind
       /\ PacketMarshal(packets[i], Empty, Unlimited).ok
       /\ PacketMarshal(packets[i], Empty, Unlimited).writer
             = Take(Drop(input, at), DeclaredSize(HeaderAt(at).length))

\* C7: every well-framed sub-packet with no concrete decoder is decoded to a
\* RawPacket, and marshalling that RawPacket writes exactly the bytes of its
\* own sub-packet slice, header included, and none of its neighbours'.
C7_RawFallback ==
    \A i \in 1..Len(headers_at) : RawFramedAndPassed(i) => RawOfItsSlice(i)

\* The same for the sub-packets whose length is below 65535.
C7_RawFallbackBelowMaxLength ==
    \A i \in 1..Len(headers_at) :
        (RawFramedAndPassed(i) /\ ~Overflows(HeaderAt(headers_at[i]).length))
            => RawOfItsSlice(i)

\* A raw packet decoded from a compound datagram, next to another packet.
C7_RawBesideAnother ==
    /\ upc = "done"
    /\ result.status = "ok"
    /\ Len(packets) >= 2
    /\ \E i \in 1..Len(packets) : packets[i].kind = RawKind

\* What the first n packets handed to marshal serialize to, one after another.
Serialized(n) == Flatten([i \in 1..n |-> PacketBytes(mpackets[i])])

\* Serializing the j-th packet after the j-1 before it fails on this sink.
WriteFails(j) == ~PacketMarshal(mpackets[j], Serialized(j - 1), sink).ok

\* ---- C8
\* C8: for a non-empty sequence P of packets of concrete kinds,
\* unmarshal(marshal(P)) returns P: as many packets, of the same kinds, in
\* the same order, with the same contents.
C8_RoundTrip ==
    (upc = "done" /\ mpc = "done" /\ mresult.status = "ok" /\ mpackets # <<>>
        /\ \A i \in 1..Len(mpackets) : mpackets[i].kind \in ConcreteKinds)
        => /\ result.status = "ok"
           /\ result.packets = mpackets

\* The same for packets whose length field is below the largest 16-bit value.
C8_RoundTripBelowMaxLength ==
    (upc = "done" /\ mpc = "done" /\ mresult.status = "ok" /\ mpackets # <<>>
        /\ \A i \in 1..Len(mpackets) :
              /\ mpackets[i].kind \in ConcreteKinds
              /\ BLen(mpackets[i].body) \div 4 + 1 < LENGTH_MODULUS)
        => /\ result.status = "ok"
           /\ result.packets = mpackets

C8_RoundTripOfThree ==
    /\ upc = "done"
    /\ mpc = "done"
    /\ Len(mpackets) = 3
    /\ \A i \in 1..Len(mpackets) : mpackets[i].kind \in ConcreteKinds
    /\ mpackets[1].kind # mpackets[2].kind
    /\ result.packets = mpackets

\* ---- C9
\* C9: when no write fails, the sink holds exactly the packets' own
\* serializations one after another in sequence order, each packet having
\* been serialized once, with nothing before, between or after them.
C9_Concatenation ==
    (mpc = "done" /\ mresult.status = "ok")
        => /\ writer = Serialized(Len(mpackets))
           /\ marshalled = [i \in 1..Len(mpackets) |-> i]

C9_Witness ==
    /\ mpc = "done"
    /\ mresult.status = "ok"
    /\ sink.limited
    /\ Len(mpackets) >= 2
    /\ mpackets[1] # mpackets[2]

\* ---- C10
\* C10: when serializing the k-th packet fails, marshal stops there and
\* returns the sink's error: packets 1..k were serialized in order and none
\* after the k-th, and the sink still starts with the bytes of packets 1..k-1.
C10_FailStops ==
    /\ \A j \in 1..Len(marshalled) :
          WriteFails(j) => /\ j = Len(marshalled)
                           /\ mpc = "done"
                           /\ mresult.status = "err"
    /\ (mpc = "done" /\ mresult.status = "err")
          => LET k == Len(marshalled)
             IN /\ k \in 1..Len(mpackets)
                /\ marshalled = [i \in 1..k |-> i]
                /\ WriteFails(k)
                /\ mresult.err = PacketMarshal(mpackets[k], Serialized(k - 1), sink).err
                /\ mresult.packets = <<>>
                /\ BLen(writer) >= BLen(Serialized(k - 1))
                /\ Take(writer, BLen(Serialized(k - 1))) = Serialized(k - 1)

\* The second of three packets fails.
C10_Witness ==
    /\ mpc = "done"
    /\ mresult.status = "err"
    /\ Len(marshalled) = 2
    /\ Len(mpackets) = 3
    /\ BLen(writer) > 0

\* ---- C11
\* C11: the cursor never passes the end of the buffer, and every slice handed
\* to a decoder starts where its header was read, is exactly the
\* (length + 1) * 4 bytes that header declares and ends within the buffer; no
\* decoder is reached for a sub-packet declared larger than what remains.
C11_SliceIsDeclaredSubPacket ==
    /\ BLen(raw_data) <= BLen(input)
    /\ Len(slices) <= Len(headers_at)
    /\ \A i \in 1..Len(slices) :
          /\ slices[i].at = headers_at[i]
          /\ slices[i].size = DeclaredSize(HeaderAt(slices[i].at).length)
          /\ slices[i].at + slices[i].size <= BLen(input)
    /\ upc = "dispatch" => DeclaredSize(header.length) <= BLen(raw_data)

\* What holds for every length: nothing outside the buffer is ever sliced.
C11_NoReadPastEnd ==
    /\ BLen(raw_data) <= BLen(input)
    /\ \A i \in 1..Len(slices) :
          /\ slices[i].at = headers_at[i]
          /\ slices[i].at + slices[i].size <= BLen(input)
    /\ upc = "dispatch" => bytes_processed <= BLen(raw_data)

\* ---- C12
\* Loop iterations entered so far: those that decoded a header, and the one
\* that found a fragment shorter than a header.
Iterations ==
    Len(headers_at)
        + (IF upc = "done" /\ BLen(raw_data) \in 1..(HEADER_LENGTH - 1) THEN 1 ELSE 0)

\* C12 as stated: the number of loop iterations of a call is at most
\* len(buffer) / 4.
C12_IterationsAtMostQuarter ==
    Iterations * HEADER_LENGTH <= BLen(input)

\* C12, amended: every call ends; an iteration that does not fail advances the
\* cursor by at least 4 bytes, so at most len(buffer) / 4 iterations do not
\* fail, and one more may follow that fails.
C12_Terminates ==
    /\ [](Len(packets) * HEADER_LENGTH <= BLen(input))
    /\ [](Iterations <= BLen(input) \div HEADER_LENGTH + 1)
    /\ [][(upc = "dispatch" /\ upc' = "loop")
             => BLen(raw_data') + HEADER_LENGTH <= BLen(raw_data)]_vars
    /\ (upc = "loop" ~> upc = "done")

\* A call on a header of length 65535 has ended, in a build that wraps.
C12_Witness ==
    /\ upc = "done"
    /\ ~overflow_checks
    /\ Len(slices) = 2
    /\ slices[1].size >= HEADER_LENGTH
    /\ slices[2].size = 0

\* ---- C13
\* C13: a successful result holds at least one packet, and ErrInvalidHeader is
\* returned only for an empty buffer: a non-empty buffer yields packets or
\* another error.
C13_NeverEmptySuccess ==
    upc = "done" =>
        /\ result.status = "ok" => Len(result.packets) >= 1
        /\ (result.status = "err" /\ result.err = ErrInvalidHeader)
              => BLen(input) = 0
        /\ BLen(input) > 0 =>
              \/ result.status = "ok" /\ Len(result.packets) >= 1
              \/ /\ result.status = "err"
                 /\ result.err \in {ErrPacketTooShort, ErrBadVersion,
                                    ErrMalformedBody}

\* What holds in every build: no empty success, and ErrInvalidHeader for the
\* empty buffer alone.
C13_InvalidHeaderOnlyWhenEmpty ==
    upc = "done" =>
        /\ result.status = "ok" => Len(result.packets) >= 1
        /\ (result.status = "err" /\ result.err = ErrInvalidHeader)
              => BLen(input) = 0

\* ---- C14
\* The arguments and locals of the first unmarshal call.
Call ==
    [input |-> input, raw_data |-> raw_data, header |-> header,
     bytes_processed |-> bytes_processed, packets |-> packets, upc |-> upc,
     result |-> result]

\* What unmarshal returns for a buffer when nothing else runs.
RECURSIVE RunToEnd(_, _)
RunToEnd(c, oc) ==
    IF c.upc = "done" THEN c ELSE RunToEnd(UnmarshalStep(c, oc), oc)

RunAlone(buf, oc) == RunToEnd(StartCall(buf), oc).result

\* What marshal returns, and leaves in the sink, when nothing else runs.
RECURSIVE MarshalFrom(_, _, _, _)
MarshalFrom(ps, i, w, s) ==
    IF i > Len(ps) THEN [result |-> Returned(<<>>), writer |-> w]
    ELSE LET r == PacketMarshal(ps[i], w, s)
         IN IF r.ok THEN MarshalFrom(ps, i + 1, r.writer, s)
            ELSE [result |-> Failed(r.err), writer |-> r.writer]

MarshalAlone(ps, s) == MarshalFrom(ps, 1, Empty, s)

\* Both unmarshal calls run the same code: every step of the first call is
\* the step the second call would take from the same locals.
SameCodeInBothCalls ==
    [][(upc \notin {"idle", "done"} /\ Call' # Call)
          => Call' = UnmarshalStep(Call, overflow_checks)]_vars

\* C14: with the steps of two unmarshal calls and a marshal call interleaved
\* in any order, each call returns what it returns when run alone, and two
\* calls on the same buffer return the same result.
C14_CallsAreIndependent ==
    /\ upc = "done" => result = RunAlone(input, overflow_checks)
    /\ peer.upc = "done" => peer.result = RunAlone(peer.input, overflow_checks)
    /\ mpc = "done" =>
          /\ mresult = MarshalAlone(mpackets, sink).result
          /\ writer = MarshalAlone(mpackets, sink).writer
    /\ (upc = "done" /\ peer.upc = "done" /\ input = peer.input)
          => result = peer.result

\* The second call has returned two packets while the first call, on another
\* buffer, and a marshal call are under way.
C14_Witness ==
    /\ peer.upc = "done"
    /\ peer.result.status = "ok"
    /\ Len(peer.result.packets) = 2
    /\ input # peer.input
    /\ upc = "dispatch"
    /\ Len(packets) = 1
    /\ mpc = "loop"
    /\ mi = 2

\* The first call is repeated by the second on the same buffer.
C14_Repeated ==
    /\ upc = "done"
    /\ peer.upc = "done"
    /\ input = peer.input
    /\ result.status = "ok"

\* ---- C15
\* Length field of the header a packet serializes.
WrittenLength(p) == At(PacketBytes(p), 3) * 256 + At(PacketBytes(p), 4)

RECURSIVE SumDeclared(_)
SumDeclared(ps) ==
    IF ps = <<>> THEN 0
    ELSE DeclaredSize(WrittenLength(Head(ps))) + SumDeclared(Tail(ps))

\* C15: when every packet serializes to the size its own header declares,
\* marshal writes the sum over the packets of (length + 1) * 4 bytes.
C15_TotalLength ==
    (mpc = "done" /\ mresult.status = "ok"
        /\ \A i \in 1..Len(mpackets) :
              BLen(PacketBytes(mpackets[i])) = DeclaredSize(WrittenLength(mpackets[i])))
        => BLen(writer) = SumDeclared(mpackets)

\* Three packets of different sizes.
C15_Witness ==
    /\ mpc = "done"
    /\ mresult.status = "ok"
    /\ Len(mpackets) = 3
    /\ WrittenLength(mpackets[1]) # WrittenLength(mpackets[2])
    /\ BLen(writer) = SumDeclared(mpackets)

\* ---- C16
\* C16: for every 16-bit length the size unmarshal computes is
\* (length + 1) * 4 without wraparound; 65535 gives 262144.
C16_SizeWithoutWraparound ==
    /\ upc = "dispatch" => bytes_processed = DeclaredSize(header.length)
    /\ result.status # "panic"

\* The same for the lengths whose successor fits 16 bits.
C16_SizeBelowMaxLength ==
    (upc = "dispatch" /\ header.length + 1 < LENGTH_MODULUS)
        => bytes_processed = DeclaredSize(header.length)

\* ---- C17
\* C17: on success the decoded slices partition the buffer: the first starts
\* at 0, each starts where the one before ends, each size is a multiple of 4
\* and at least 4, the last ends at the end of the buffer, where the cursor
\* is; so the buffer length is a multiple of 4.
C17_SlicesPartitionInput ==
    (upc = "done" /\ result.status = "ok")
        => /\ Len(slices) = Len(result.packets)
           /\ Len(slices) >= 1
           /\ slices[1].at = 0
           /\ \A i \in 1..Len(slices) :
                 /\ slices[i].size % 4 = 0
                 /\ slices[i].size >= 4
                 /\ i > 1 => slices[i].at = slices[i - 1].at + slices[i - 1].size
           /\ slices[Len(slices)].at + slices[Len(slices)].size = BLen(input)
           /\ SumSizes(slices) = BLen(input)
           /\ Cursor = BLen(input)
           /\ BLen(input) % 4 = 0

\* Two sub-packets of different sizes.
C17_Witness ==
    /\ upc = "done"
    /\ result.status = "ok"
    /\ Len(slices) = 2
    /\ slices[1].size # slices[2].size

\* ---- C18
\* The decoder of the design's table applied to one complete sub-packet.
TableDecode(slice, hdr) ==
    IF TableDecoder(hdr.packet_type, hdr.count) = "RawPacket"
    THEN RawUnmarshal(slice)
    ELSE ConcreteUnmarshal(TableDecoder(hdr.packet_type, hdr.count), slice)

\* The faults of a buffer in wire order, each with its offset and its error,
\* sizes computed in the integers: a sub-packet its decoder rejects is framed,
\* so the scan goes on behind it; a fragment, an undecodable header or a
\* truncated sub-packet ends the framing.
RECURSIVE Faults(_, _)
Faults(buf, at) ==
    LET rest == Drop(buf, at)
        h == HeaderUnmarshal(Take(rest, HEADER_LENGTH))
    IN IF BLen(rest) = 0 THEN <<>>
       ELSE IF BLen(rest) < HEADER_LENGTH
            THEN << [at |-> at, err |-> ErrPacketTooShort] >>
       ELSE IF ~h.ok THEN << [at |-> at, err |-> h.err] >>
       ELSE LET n == DeclaredSize(h.val.length)
                d == TableDecode(Take(rest, n), h.val)
            IN IF n > BLen(rest)
               THEN << [at |-> at, err |-> ErrPacketTooShort] >>
               ELSE IF ~d.ok
                    THEN << [at |-> at, err |-> d.err] >> \o Faults(buf, at + n)
                    ELSE Faults(buf, at + n)

\* C18: a call on a buffer holding faulty sub-packets returns the error of
\* the earliest one in wire order and stops there, having read no header and
\* called no decoder behind it.
C18_FirstFaultWins ==
    (upc = "done" /\ Faults(input, 0) # <<>>)
        => LET first == Faults(input, 0)[1]
           IN /\ result.status = "err"
              /\ result.err = first.err
              /\ Cursor = first.at
              /\ \A i \in 1..Len(headers_at) : headers_at[i] <= first.at
              /\ \A i \in 1..Len(slices) : slices[i].at <= first.at

\* The same for the calls that met no header of length 65535.
C18_FirstFaultBelowMaxLength ==
    (upc = "done" /\ Faults(input, 0) # <<>>
        /\ \A i \in 1..Len(headers_at) :
              ~Overflows(At(input, headers_at[i] + 3) * 256
                            + At(input, headers_at[i] + 4)))
        => LET first == Faults(input, 0)[1]
           IN /\ result.status = "err"
              /\ result.err = first.err
              /\ Cursor = first.at
              /\ \A i \in 1..Len(headers_at) : headers_at[i] <= first.at
              /\ \A i \in 1..Len(slices) : slices[i].at <= first.at

\* A sub-packet rejected by its decoder, behind a good one and before a
\* trailing fragment.
C18_TwoFaults ==
    /\ upc = "done"
    /\ result.status = "err"
    /\ Len(Faults(input, 0)) >= 2
    /\ Faults(input, 0)[1].at > 0
    /\ Faults(input, 0)[1].err = ErrMalformedBody
    /\ Faults(input, 0)[2].err = ErrPacketTooShort

====
